---- MODULE Spec2Model ----
(***************************************************************************)
(* Model of the toy payment engine: the per-client ledger                  *)
(* (engine/model.rs, ClientAccount) driven by the record loop of           *)
(* engine/processor.rs (process_transactions).                             *)
(*                                                                         *)
(* Decimal amounts are modelled as integers counting the smallest unit;    *)
(* Decimal addition, subtraction and comparison are exact, as are the      *)
(* integer operations used here.  Option<Decimal> is a sequence of length  *)
(* 0 (None) or 1 (Some(a)).                                                *)
(***************************************************************************)
EXTENDS Integers, Sequences, FiniteSets, TLC

\* ------------------------------------------------------------------ bounds
MaxClient == 2
MaxTx == 2
MaxAmount == 2
MaxRecords == 4

Clients == 1..MaxClient
TxIds == 1..MaxTx

\* Option<Decimal>
None == << >>
Some(a) == << a >>

\* amounts a decoded record can carry: missing, negative, zero, positive
Amounts == {None} \cup {Some(a) : a \in (-1)..MaxAmount}

VARIABLES
    accounts,   \* processor.rs:23  HashMap<u16, ClientAccount>
    record,     \* processor.rs:24  the record of the last loop iteration, as
                \*                  `data` stands at the end of update
    prev,       \* the accounts map as it stood before the last iteration
    applied,    \* per (client, tx): the last status a handler assigned to
                \* data.status (model.rs:99,140,184,229,275)
    prevApplied,\* applied as it stood before the last iteration
    lastDispute,\* the last Dispute that took effect: its client and tx, its
                \* position in the stream and the account as it stood before
    chargebacks,\* per client: the tx ids on which a Chargeback took effect
    nread,      \* number of records pulled from the stream so far
    failure,    \* the failure the stream yielded, "NoFailure" while none
    result      \* "running", or how process_transactions returned

vars == << accounts, record, prev, applied, prevApplied, lastDispute,
          chargebacks, nread, failure, result >>

\* ------------------------------------------------------------ data model
\* model.rs:45-56  a decoded record; status takes serde's default (Loaded)
Transaction(ty, c, t, a) ==
    [tx_type |-> ty, client_id |-> c, tx_id |-> t, amount |-> a,
     status |-> "Loaded"]

NoRecord == [tx_type |-> "NoRecord", client_id |-> 0, tx_id |-> 0,
             amount |-> None, status |-> "Loaded"]

\* model.rs:71-76  ClientAccount::new
ClientAccount_new(client_id) ==
    [client_id |-> client_id, available |-> 0, held |-> 0, total |-> 0,
     locked |-> FALSE, txs |-> << >>]

\* HashMap insert of a key known to be vacant (Entry::Vacant(e).insert)
insert(m, k, v) == m @@ (k :> v)

\* what a handler hands back: the account and the (mutable) record
Out(self, data) == [self |-> self, data |-> data]

\* ------------------------------------------------------------- handlers
\* deposit that credits available but forgets total
deposit_noTotal(self, data) ==
    IF ~self.locked /\ data.tx_id \notin DOMAIN self.txs
       /\ data.amount # None /\ data.amount[1] > 0
    THEN LET d == [data EXCEPT !.status = "Verified"] IN
         Out([self EXCEPT !.available = @ + data.amount[1],
                          !.txs = insert(@, data.tx_id, d)], d)
    ELSE Out(self, data)

\* deposit whose amount test is >= 0 instead of > 0
deposit_acceptsZero(self, data) ==
    IF ~self.locked /\ data.tx_id \notin DOMAIN self.txs
       /\ data.amount # None /\ data.amount[1] >= 0
    THEN LET d == [data EXCEPT !.status = "Verified"] IN
         Out([self EXCEPT !.total = @ + data.amount[1],
                          !.available = @ + data.amount[1],
                          !.txs = insert(@, data.tx_id, d)], d)
    ELSE Out(self, data)

\* deposit that registers the record before it looks at the amount
deposit_storesRejected(self, data) ==
    IF ~self.locked /\ data.tx_id \notin DOMAIN self.txs
    THEN IF data.amount # None /\ data.amount[1] > 0
         THEN LET d == [data EXCEPT !.status = "Verified"] IN
              Out([self EXCEPT !.total = @ + data.amount[1],
                               !.available = @ + data.amount[1],
                               !.txs = insert(@, data.tx_id, d)], d)
         ELSE Out([self EXCEPT !.txs = insert(@, data.tx_id, data)], data)
    ELSE Out(self, data)

\* model.rs:88-126
deposit(self, data) ==
    IF ~self.locked
    THEN IF data.tx_id \notin DOMAIN self.txs
         THEN IF data.amount # None
              THEN LET amount == data.amount[1] IN
                   IF amount > 0
                   THEN LET d == [data EXCEPT !.status = "Verified"] IN
                        Out([self EXCEPT !.total = @ + amount,
                                         !.available = @ + amount,
                                         !.txs = insert(@, data.tx_id, d)],
                            d)
                   ELSE Out(self, data)
              ELSE Out(self, data)
         ELSE Out(self, data)
    ELSE Out(self, data)

\* withdrawal that does not compare the amount with available
withdrawal_noFundsCheck(self, data) ==
    IF ~self.locked /\ data.tx_id \notin DOMAIN self.txs
       /\ data.amount # None /\ data.amount[1] > 0
    THEN LET d == [data EXCEPT !.status = "Verified"] IN
         Out([self EXCEPT !.total = @ - data.amount[1],
                          !.available = @ - data.amount[1],
                          !.txs = insert(@, data.tx_id, d)], d)
    ELSE Out(self, data)

\* withdrawal that needs available > amount instead of available >= amount
withdrawal_strict(self, data) ==
    IF ~self.locked /\ data.tx_id \notin DOMAIN self.txs
       /\ data.amount # None /\ data.amount[1] > 0
       /\ self.available > data.amount[1]
    THEN LET d == [data EXCEPT !.status = "Verified"] IN
         Out([self EXCEPT !.total = @ - data.amount[1],
                          !.available = @ - data.amount[1],
                          !.txs = insert(@, data.tx_id, d)], d)
    ELSE Out(self, data)

\* withdrawal that debits available but forgets total
withdrawal_noTotal(self, data) ==
    IF ~self.locked /\ data.tx_id \notin DOMAIN self.txs
       /\ data.amount # None /\ data.amount[1] > 0
       /\ self.available >= data.amount[1]
    THEN LET d == [data EXCEPT !.status = "Verified"] IN
         Out([self EXCEPT !.available = @ - data.amount[1],
                          !.txs = insert(@, data.tx_id, d)], d)
    ELSE Out(self, data)

\* model.rs:128-170
withdrawal(self, data) ==
    IF ~self.locked
    THEN IF data.tx_id \notin DOMAIN self.txs
         THEN IF data.amount # None
              THEN LET amount == data.amount[1] IN
                   IF amount > 0
                   THEN IF self.available >= amount
                        THEN LET d == [data EXCEPT !.status = "Verified"] IN
                             Out([self EXCEPT !.total = @ - amount,
                                              !.available = @ - amount,
                                              !.txs = insert(@, data.tx_id, d)],
                                 d)
                        ELSE Out(self, data)
                   ELSE Out(self, data)
              ELSE Out(self, data)
         ELSE Out(self, data)
    ELSE Out(self, data)

\* dispute that does not compare the amount with available
dispute_noFundsCheck(self, data) ==
    IF data.tx_id \in DOMAIN self.txs
       /\ self.txs[data.tx_id].status = "Verified"
       /\ self.txs[data.tx_id].amount # None
    THEN Out([self EXCEPT !.available = @ - self.txs[data.tx_id].amount[1],
                          !.held = @ + self.txs[data.tx_id].amount[1]],
             [data EXCEPT !.status = "Disputed"])
    ELSE Out(self, data)

\* model.rs:172-215  the status is assigned to the record `data`, which is
\* dropped when the handler returns; the stored transaction `tx` is only read
dispute(self, data) ==
    IF data.tx_id \in DOMAIN self.txs
    THEN LET tx == self.txs[data.tx_id] IN
         IF tx.status = "Verified"
         THEN IF tx.amount # None
              THEN LET amount == tx.amount[1] IN
                   IF self.available >= amount
                   THEN Out([self EXCEPT !.available = @ - amount,
                                         !.held = @ + amount],
                            [data EXCEPT !.status = "Disputed"])
                   ELSE Out(self, data)
              ELSE Out(self, data)
         ELSE Out(self, data)
    ELSE Out(self, data)

\* model.rs:217-260
resolve(self, data) ==
    IF data.tx_id \in DOMAIN self.txs
    THEN LET tx == self.txs[data.tx_id] IN
         IF tx.status = "Disputed"
         THEN IF tx.amount # None
              THEN LET amount == tx.amount[1] IN
                   IF self.held >= amount
                   THEN Out([self EXCEPT !.available = @ + amount,
                                         !.held = @ - amount],
                            [data EXCEPT !.status = "Resolved"])
                   ELSE Out(self, data)
              ELSE Out(self, data)
         ELSE Out(self, data)
    ELSE Out(self, data)

\* model.rs:262-306  the accepting arm is Resolved (line 268), and the status
\* written to the record is Resolved (line 275)
chargeback(self, data) ==
    IF data.tx_id \in DOMAIN self.txs
    THEN LET tx == self.txs[data.tx_id] IN
         IF tx.status = "Resolved"
         THEN IF tx.amount # None
              THEN LET amount == tx.amount[1] IN
                   IF self.held >= amount
                   THEN Out([self EXCEPT !.total = @ - amount,
                                         !.held = @ - amount,
                                         !.locked = TRUE],
                            [data EXCEPT !.status = "Resolved"])
                   ELSE Out(self, data)
              ELSE Out(self, data)
         ELSE Out(self, data)
    ELSE Out(self, data)

\* model.rs:78-86
update(self, data) ==
    CASE data.tx_type = "Deposit"    -> deposit(self, data)
      [] data.tx_type = "Withdrawal" -> withdrawal(self, data)
      [] data.tx_type = "Dispute"    -> dispute(self, data)
      [] data.tx_type = "Resolve"    -> resolve(self, data)
      [] data.tx_type = "Chargeback" -> chargeback(self, data)

\* ------------------------------------------------------------ the loop
\* loop that treats a tx id stored under any client as already registered
process_record_globalTxIds(accs, data) ==
    IF /\ data.tx_type \in {"Deposit", "Withdrawal"}
       /\ \E c \in DOMAIN accs : data.tx_id \in DOMAIN accs[c].txs
    THEN [accounts |-> IF data.client_id \in DOMAIN accs
                       THEN accs
                       ELSE insert(accs, data.client_id,
                                   ClientAccount_new(data.client_id)),
          data |-> data]
    ELSE LET self == IF data.client_id \in DOMAIN accs
                     THEN accs[data.client_id]
                     ELSE ClientAccount_new(data.client_id)
             out == update(self, data) IN
         [accounts |-> [c \in DOMAIN accs \cup {data.client_id} |->
                           IF c = data.client_id THEN out.self ELSE accs[c]],
          data |-> out.data]

\* loop that keeps a new account only when its first record took effect
process_record_createsOnAccept(accs, data) ==
    IF data.client_id \in DOMAIN accs
    THEN LET out == update(accs[data.client_id], data) IN
         [accounts |-> [accs EXCEPT ![data.client_id] = out.self],
          data |-> out.data]
    ELSE LET out == update(ClientAccount_new(data.client_id), data) IN
         [accounts |-> IF out.data.status # data.status
                       THEN insert(accs, out.self.client_id, out.self)
                       ELSE accs,
          data |-> out.data]

\* loop that hands the record to every account of the map
process_record_updatesAll(accs, data) ==
    LET all == IF data.client_id \in DOMAIN accs
               THEN accs
               ELSE insert(accs, data.client_id,
                           ClientAccount_new(data.client_id)) IN
    [accounts |-> [c \in DOMAIN all |-> update(all[c], data).self],
     data |-> update(all[data.client_id], data).data]

\* loop that looks a disputed tx id up in every account's store
process_record_crossLookup(accs, data) ==
    LET all == IF data.client_id \in DOMAIN accs
               THEN accs
               ELSE insert(accs, data.client_id,
                           ClientAccount_new(data.client_id))
        owners == IF data.tx_type \in {"Deposit", "Withdrawal"}
                  THEN {data.client_id}
                  ELSE {data.client_id} \cup
                       {c \in DOMAIN all : data.tx_id \in DOMAIN all[c].txs} IN
    [accounts |-> [c \in DOMAIN all |->
                      IF c \in owners THEN update(all[c], data).self
                                      ELSE all[c]],
     data |-> update(all[data.client_id], data).data]

\* processor.rs:25-33  one iteration of the while loop for a decoded record
process_record(accs, data) ==
    IF data.client_id \in DOMAIN accs
    THEN LET out == update(accs[data.client_id], data) IN
         [accounts |-> [accs EXCEPT ![data.client_id] = out.self],
          data |-> out.data]
    ELSE LET out == update(ClientAccount_new(data.client_id), data) IN
         [accounts |-> insert(accs, out.self.client_id, out.self),
          data |-> out.data]

\* processor.rs:25-30  the account a record of client c is applied to: the
\* stored one, or a new one when the map has none
Before(accs, c) ==
    IF c \in DOMAIN accs THEN accs[c] ELSE ClientAccount_new(c)

Init ==
    /\ accounts = << >>
    /\ record = NoRecord
    /\ prev = << >>
    /\ applied = [c \in Clients |-> [t \in TxIds |-> "Loaded"]]
    /\ prevApplied = [c \in Clients |-> [t \in TxIds |-> "Loaded"]]
    /\ lastDispute = [client_id |-> 0, tx_id |-> 0, at |-> 0,
                       account |-> ClientAccount_new(0)]
    /\ chargebacks = [c \in Clients |-> {}]
    /\ nread = 0
    /\ failure = "NoFailure"
    /\ result = "running"

\* iteration that goes on after the stream has yielded a failure
Step_ignoresResult(data) ==
    /\ result # "Ok"
    /\ nread < MaxRecords
    /\ LET out == process_record(accounts, data) IN
       /\ accounts' = out.accounts
       /\ record' = out.data
       /\ applied' = IF out.data.status # data.status
                     THEN [applied EXCEPT ![data.client_id][data.tx_id] =
                                              out.data.status]
                     ELSE applied
    /\ prev' = accounts
    /\ prevApplied' = applied
    /\ lastDispute' =
          IF data.tx_type = "Dispute" /\ record'.status # data.status
          THEN [client_id |-> data.client_id, tx_id |-> data.tx_id,
                at |-> nread + 1, account |-> Before(accounts, data.client_id)]
          ELSE lastDispute
    /\ chargebacks' =
          IF data.tx_type = "Chargeback" /\ record'.status # data.status
          THEN [chargebacks EXCEPT ![data.client_id] = @ \cup {data.tx_id}]
          ELSE chargebacks
    /\ nread' = nread + 1
    /\ UNCHANGED << failure, result >>

\* processor.rs:24-34  iter.try_next() yields Some(data); the record is applied
Step(data) ==
    /\ result = "running"
    /\ nread < MaxRecords
    /\ LET out == process_record(accounts, data) IN
       /\ accounts' = out.accounts
       /\ record' = out.data
       /\ applied' = IF out.data.status # data.status
                     THEN [applied EXCEPT ![data.client_id][data.tx_id] =
                                              out.data.status]
                     ELSE applied
    /\ prev' = accounts
    /\ prevApplied' = applied
    /\ lastDispute' =
          IF data.tx_type = "Dispute" /\ record'.status # data.status
          THEN [client_id |-> data.client_id, tx_id |-> data.tx_id,
                at |-> nread + 1, account |-> Before(accounts, data.client_id)]
          ELSE lastDispute
    /\ chargebacks' =
          IF data.tx_type = "Chargeback" /\ record'.status # data.status
          THEN [chargebacks EXCEPT ![data.client_id] = @ \cup {data.tx_id}]
          ELSE chargebacks
    /\ nread' = nread + 1
    /\ UNCHANGED << failure, result >>

Deposit ==
    \E c \in Clients, t \in TxIds, a \in Amounts :
        Step(Transaction("Deposit", c, t, a))

Withdrawal ==
    \E c \in Clients, t \in TxIds, a \in Amounts :
        Step(Transaction("Withdrawal", c, t, a))

Dispute ==
    \E c \in Clients, t \in TxIds : Step(Transaction("Dispute", c, t, None))

Resolve ==
    \E c \in Clients, t \in TxIds : Step(Transaction("Resolve", c, t, None))

Chargeback ==
    \E c \in Clients, t \in TxIds : Step(Transaction("Chargeback", c, t, None))

\* processor.rs:24,36  iter.try_next() yields None: Ok(accounts)
Finish ==
    /\ result = "running"
    /\ result' = "Ok"
    /\ UNCHANGED << accounts, record, prev, applied, prevApplied, lastDispute,
                    chargebacks, nread, failure >>

\* the ways the deserializing stream can yield Err(csv_async::Error) for a
\* row: an amount field that is no decimal, a row that does not decode
\* otherwise (unknown type, non-numeric client or tx, bad UTF-8), a failed read
StreamFailures == {"MalformedAmount", "MalformedRow", "IoRead"}

\* error.rs:17-21  From<csv_async::Error> for EngineError, the conversion `?`
\* applies to every Err the stream yields, a failed read included
EngineError_from(e) == "CsvError"

\* error.rs:3-7  the variants of EngineError
EngineError == {"CsvError", "IoError"}

\* loop that logs a malformed amount and goes on to the next record
StreamError_skipsAmount ==
    /\ result = "running"
    /\ \E e \in StreamFailures :
          /\ failure' = e
          /\ result' = IF e = "MalformedAmount" THEN "running"
                                                ELSE EngineError_from(e)
    /\ UNCHANGED << accounts, record, prev, applied, prevApplied, lastDispute,
                    chargebacks, nread >>

\* processor.rs:24  iter.try_next().await? yields Err: the run returns it
StreamError ==
    /\ result = "running"
    /\ \E e \in StreamFailures :
          /\ failure' = e
          /\ result' = EngineError_from(e)
    /\ UNCHANGED << accounts, record, prev, applied, prevApplied, lastDispute,
                    chargebacks, nread >>

Next ==
    \/ Deposit
    \/ Withdrawal
    \/ Dispute
    \/ Resolve
    \/ Chargeback
    \/ Finish
    \/ StreamError

Spec == Init /\ [][Next]_vars

\* ---------------------------------------------------------------- claims
\* the account the last record was applied to, after and before the record
Cur == accounts[record.client_id]
Pre == Before(prev, record.client_id)
Acted == record.tx_type # "NoRecord"
\* the stored transaction the last record names, as it stood before the record
Named == Pre.txs[record.tx_id]
NamedStored == Acted /\ record.tx_id \in DOMAIN Pre.txs
\* the status the handlers have last written for the transaction the record
\* names, before the record
Lifecycle == prevApplied[record.client_id][record.tx_id]
SameBalances(a, b) ==
    /\ a.available = b.available
    /\ a.held = b.held
    /\ a.total = b.total
    /\ a.locked = b.locked

\* C1: for every account, after every record, total = available + held.
Inv_C1_TotalIsAvailablePlusHeld ==
    \A c \in DOMAIN accounts :
        accounts[c].total = accounts[c].available + accounts[c].held

\* an account with funds both available and held, after a dispute took effect
Wit_C1 ==
    /\ Acted
    /\ record.tx_type = "Dispute"
    /\ record.status = "Disputed"
    /\ Cur.held > 0
    /\ Cur.available > 0

\* C2: for every account, after every record, held >= 0 and available >= 0.
Inv_C2_NonNegative ==
    \A c \in DOMAIN accounts :
        accounts[c].held >= 0 /\ accounts[c].available >= 0

\* a withdrawal of more than the available funds has just been processed
Wit_C2 ==
    /\ Acted
    /\ record.tx_type = "Withdrawal"
    /\ record.amount # None
    /\ record.tx_id \notin DOMAIN Pre.txs
    /\ record.amount[1] > Pre.available
    /\ Pre.available > 0

\* C3: a Dispute naming a stored Verified transaction t of the same account,
\* with available >= t.amount, decreases available by t.amount, increases held
\* by t.amount, leaves total unchanged and sets the stored status to Disputed.
CE_C3_DisputeEffect ==
    (/\ NamedStored
     /\ record.tx_type = "Dispute"
     /\ Named.status = "Verified"
     /\ Pre.available >= Named.amount[1])
    => /\ Cur.available = Pre.available - Named.amount[1]
       /\ Cur.held = Pre.held + Named.amount[1]
       /\ Cur.total = Pre.total
       /\ Cur.txs[record.tx_id].status = "Disputed"

\* C4: a lifecycle record that is not on the diagram Verified -Dispute->
\* Disputed -Resolve-> Resolved | -Chargeback-> Chargebacked is rejected; in
\* particular a Dispute naming a transaction that was already successfully
\* disputed changes neither available, held, total nor locked.
CE_C4_OffDiagramRejected ==
    (/\ NamedStored
     /\ \/ record.tx_type = "Dispute" /\ Lifecycle # "Verified"
        \/ record.tx_type = "Resolve" /\ Lifecycle # "Disputed"
        \/ record.tx_type = "Chargeback" /\ Lifecycle # "Disputed")
    => SameBalances(Cur, Pre)

\* C5: a Resolve naming a stored transaction t that is Disputed (its stored
\* status is Disputed, or a Dispute of t has taken effect and nothing since),
\* with held >= t.amount, increases available by t.amount, decreases held by
\* t.amount, leaves total unchanged and sets the stored status to Resolved.
CE_C5_ResolveEffect ==
    (/\ NamedStored
     /\ record.tx_type = "Resolve"
     /\ (Named.status = "Disputed" \/ Lifecycle = "Disputed")
     /\ Pre.held >= Named.amount[1])
    => /\ Cur.available = Pre.available + Named.amount[1]
       /\ Cur.held = Pre.held - Named.amount[1]
       /\ Cur.total = Pre.total
       /\ Cur.txs[record.tx_id].status = "Resolved"

\* C6: a Chargeback naming a stored transaction t that is Disputed, with
\* held >= t.amount, decreases total and held by t.amount, leaves available
\* unchanged, locks the account and sets the stored status to Chargebacked; a
\* Chargeback naming a Resolved or Verified transaction is rejected.
CE_C6_ChargebackEffect ==
    /\ (/\ NamedStored
        /\ record.tx_type = "Chargeback"
        /\ (Named.status = "Disputed" \/ Lifecycle = "Disputed")
        /\ Pre.held >= Named.amount[1])
       => /\ Cur.total = Pre.total - Named.amount[1]
          /\ Cur.held = Pre.held - Named.amount[1]
          /\ Cur.available = Pre.available
          /\ Cur.locked
          /\ Cur.txs[record.tx_id].status = "Chargebacked"
    /\ (/\ NamedStored
        /\ record.tx_type = "Chargeback"
        /\ Named.status \in {"Resolved", "Verified"}
        /\ Lifecycle \in {"Resolved", "Verified"})
       => SameBalances(Cur, Pre)

\* C7: a Dispute of a stored Verified transaction t that took effect, followed
\* at once by Resolve of t, leaves available, held, total and locked as they
\* were before the Dispute.
CE_C7_DisputeResolveRoundTrip ==
    (/\ Acted
     /\ record.tx_type = "Resolve"
     /\ lastDispute.client_id = record.client_id
     /\ lastDispute.tx_id = record.tx_id
     /\ lastDispute.at = nread - 1)
    => SameBalances(Cur, lastDispute.account)

\* C9: locked is set only by a Chargeback record, is never reset, and the
\* sequence Deposit(t), Dispute(t), Chargeback(t) on a fresh account ends with
\* locked = TRUE.
CE_C9_LockedIffChargeback ==
    Acted =>
       /\ (record.tx_type # "Chargeback" => Cur.locked = Pre.locked)
       /\ (Pre.locked => Cur.locked)
       /\ (/\ record.tx_type = "Chargeback"
           /\ DOMAIN Pre.txs = {record.tx_id}
           /\ Named.tx_type = "Deposit"
           /\ Lifecycle = "Disputed"
           /\ Pre.available = 0
           /\ Pre.held = Named.amount[1]
           /\ Pre.total = Named.amount[1])
          => Cur.locked

\* the complete effect of each record kind on the account it is applied to
FullEffect ==
    CASE record.tx_type = "Deposit" ->
           /\ record.amount # None
           /\ Cur = [Pre EXCEPT
                       !.available = @ + record.amount[1],
                       !.total = @ + record.amount[1],
                       !.txs = insert(@, record.tx_id,
                                      [record EXCEPT !.status = "Verified"])]
      [] record.tx_type = "Withdrawal" ->
           /\ record.amount # None
           /\ Cur = [Pre EXCEPT
                       !.available = @ - record.amount[1],
                       !.total = @ - record.amount[1],
                       !.txs = insert(@, record.tx_id,
                                      [record EXCEPT !.status = "Verified"])]
      [] record.tx_type = "Dispute" ->
           /\ record.tx_id \in DOMAIN Pre.txs
           /\ Cur = [Pre EXCEPT
                       !.available = @ - Named.amount[1],
                       !.held = @ + Named.amount[1],
                       !.txs[record.tx_id].status = "Disputed"]
      [] record.tx_type = "Resolve" ->
           /\ record.tx_id \in DOMAIN Pre.txs
           /\ Cur = [Pre EXCEPT
                       !.available = @ + Named.amount[1],
                       !.held = @ - Named.amount[1],
                       !.txs[record.tx_id].status = "Resolved"]
      [] record.tx_type = "Chargeback" ->
           /\ record.tx_id \in DOMAIN Pre.txs
           /\ Cur = [Pre EXCEPT
                       !.total = @ - Named.amount[1],
                       !.held = @ - Named.amount[1],
                       !.locked = TRUE,
                       !.txs[record.tx_id].status = "Chargebacked"]

\* C10: every record either has the complete effect of its kind (balances,
\* locked flag and stored status together) or leaves every field of the
\* account unchanged.
CE_C10_NoPartialMutation ==
    Acted => (Cur = Pre \/ FullEffect)

\* no reachable account is locked: the accepting arm of chargeback needs a
\* stored status Resolved, and no handler writes a stored status after insert
NeverLocked ==
    \A c \in DOMAIN accounts :
        /\ ~accounts[c].locked
        /\ \A t \in DOMAIN accounts[c].txs : accounts[c].txs[t].status = "Verified"
\* the amount the last record carries is present and positive
AmountPositive == record.amount # None /\ record.amount[1] > 0
\* the tx id of the last record was not in the account's store before it
FreshId == record.tx_id \notin DOMAIN Pre.txs
\* the last record is stored in its account, as a Verified transaction
StoredVerified ==
    /\ record.tx_id \in DOMAIN Cur.txs
    /\ Cur.txs[record.tx_id] =
          [tx_type |-> record.tx_type, client_id |-> record.client_id,
           tx_id |-> record.tx_id, amount |-> record.amount,
           status |-> "Verified"]

\* C11: a Deposit on an unlocked account with a tx id not in its store and an
\* amount present and > 0 adds the amount to available and to total, leaves
\* held and locked unchanged and stores the record as Verified; a Deposit
\* whose amount is missing, zero or negative changes nothing.
Inv_C11_DepositEffect ==
    (Acted /\ record.tx_type = "Deposit") =>
       /\ (~Pre.locked /\ FreshId /\ AmountPositive)
          => /\ Cur.available = Pre.available + record.amount[1]
             /\ Cur.total = Pre.total + record.amount[1]
             /\ Cur.held = Pre.held
             /\ Cur.locked = Pre.locked
             /\ StoredVerified
       /\ ~AmountPositive => Cur = Pre

\* a deposit has just been accepted on an account that already held funds
Wit_C11 ==
    /\ Acted
    /\ record.tx_type = "Deposit"
    /\ FreshId
    /\ AmountPositive
    /\ Pre.available > 0
    /\ Cur.available = Pre.available + record.amount[1]

\* C12: a Withdrawal on an unlocked account with a fresh tx id and amount > 0
\* succeeds exactly when available >= amount (amount = available included):
\* it then subtracts the amount from available and from total and stores the
\* record as Verified; when amount > available nothing changes.
Inv_C12_WithdrawalEffect ==
    (/\ Acted
     /\ record.tx_type = "Withdrawal"
     /\ ~Pre.locked
     /\ FreshId
     /\ AmountPositive)
    => IF Pre.available >= record.amount[1]
       THEN /\ Cur.available = Pre.available - record.amount[1]
            /\ Cur.total = Pre.total - record.amount[1]
            /\ Cur.held = Pre.held
            /\ StoredVerified
       ELSE Cur = Pre

\* a withdrawal of exactly the available funds has just been accepted
Wit_C12 ==
    /\ Acted
    /\ record.tx_type = "Withdrawal"
    /\ FreshId
    /\ AmountPositive
    /\ record.amount[1] = Pre.available
    /\ Cur.available = 0
    /\ StoredVerified

\* C13: a Dispute naming a stored Verified transaction whose amount is greater
\* than the account's available funds is rejected: available, held, total and
\* the stored transaction are unchanged.
Inv_C13_DisputeInsufficientFunds ==
    (/\ NamedStored
     /\ record.tx_type = "Dispute"
     /\ Named.status = "Verified"
     /\ Named.amount[1] > Pre.available)
    => Cur = Pre

\* a deposit was withdrawn in full and the deposit has just been disputed
Wit_C13 ==
    /\ NamedStored
    /\ record.tx_type = "Dispute"
    /\ Named.tx_type = "Deposit"
    /\ Named.amount[1] > Pre.available
    /\ Pre.total = 0
    /\ Cur.available = 0
    /\ Cur.held = 0
    /\ \E t \in DOMAIN Pre.txs : Pre.txs[t].tx_type = "Withdrawal"
\* the tx id of the last record was stored under another client before it
StoredElsewhere ==
    \E c \in DOMAIN prev \ {record.client_id} :
        record.tx_id \in DOMAIN prev[c].txs

\* C14: a Deposit or Withdrawal whose tx id is already stored in the same
\* client's account changes nothing; one that passes its other guards and
\* reuses a tx id stored only under a different client is accepted and stored
\* in its own client's account, the other client's transaction staying as it
\* was.
Inv_C14_TxIdsUniquePerAccount ==
    (Acted /\ record.tx_type \in {"Deposit", "Withdrawal"}) =>
       /\ ~FreshId => Cur = Pre
       /\ (/\ FreshId
           /\ StoredElsewhere
           /\ ~Pre.locked
           /\ AmountPositive
           /\ (record.tx_type = "Withdrawal"
                  => Pre.available >= record.amount[1]))
          => /\ StoredVerified
             /\ \A c \in DOMAIN prev \ {record.client_id} :
                   accounts[c].txs = prev[c].txs

\* a transaction has just been stored under a tx id that another client's
\* account also holds
Wit_C14 ==
    /\ Acted
    /\ record.tx_type \in {"Deposit", "Withdrawal"}
    /\ FreshId
    /\ StoredElsewhere
    /\ StoredVerified
    /\ \E c \in DOMAIN accounts \ {record.client_id} :
          /\ record.tx_id \in DOMAIN accounts[c].txs
          /\ accounts[c].txs[record.tx_id] # Cur.txs[record.tx_id]

\* C15 (as claimed): a record whose amount is malformed is skipped; the run
\* does not abort on it.
CE_C15_MalformedAmountSkipped ==
    failure = "MalformedAmount" => result \in {"running", "Ok"}

\* C15 (amended): a record whose amount is malformed makes the run stop there
\* and return EngineError::CsvError; the accounts are left as the records
\* before it made them and no later record is applied.
Thm_C15_MalformedAmountAborts ==
    [][failure' = "MalformedAmount"
          => /\ result' = "CsvError"
             /\ accounts' = accounts
             /\ nread' = nread]_vars

\* the run has stopped on a malformed amount after applying earlier records
Wit_C15 ==
    /\ failure = "MalformedAmount"
    /\ result = "CsvError"
    /\ nread > 0
    /\ nread < MaxRecords
    /\ \E c \in DOMAIN accounts : accounts[c].total > 0

\* C16: when the stream yields a failure (a row that does not decode, a failed
\* read), the run stops at that point and returns an EngineError; no record at
\* or after that position is applied to any account.
Thm_C16_StreamFailureTerminates ==
    [][/\ (failure = "NoFailure" /\ failure' # "NoFailure")
          => (result' \in EngineError /\ accounts' = accounts)
       /\ result \in EngineError
          => (accounts' = accounts /\ nread' = nread /\ record' = record
              /\ result' = result)]_vars

\* the run has stopped on a row or read failure after applying some records
Wit_C16 ==
    /\ failure \in {"MalformedRow", "IoRead"}
    /\ result \in EngineError
    /\ nread = 2
    /\ DOMAIN accounts # {}
\* the last record was rejected: no handler assigned it a status
Rejected == record.status = "Loaded"
FirstOfClient == record.client_id \notin DOMAIN prev

\* C17: the map holds an account for client c exactly from the first record
\* carrying c onward, whether that record is accepted or not; the account is
\* all-zero, unlocked and with an empty store when the record is applied to
\* it; no account is ever removed.
Inv_C17_AccountCreation ==
    /\ nread = 0 => DOMAIN accounts = {}
    /\ \A c \in DOMAIN accounts : accounts[c].client_id = c
    /\ Acted =>
          /\ DOMAIN accounts = DOMAIN prev \cup {record.client_id}
          /\ (FirstOfClient /\ Rejected)
             => Cur = [client_id |-> record.client_id, available |-> 0,
                       held |-> 0, total |-> 0, locked |-> FALSE,
                       txs |-> << >>]
          /\ (FirstOfClient /\ ~Rejected)
             => /\ record.tx_type = "Deposit"
                /\ Cur.available = record.amount[1]
                /\ Cur.total = record.amount[1]
                /\ Cur.held = 0
                /\ ~Cur.locked
                /\ DOMAIN Cur.txs = {record.tx_id}

\* the first record of a client has just been rejected, and the map, which
\* already held another account, now holds an all-zero account for the client
Wit_C17 ==
    /\ Acted
    /\ FirstOfClient
    /\ Rejected
    /\ DOMAIN prev # {}
    /\ record.client_id \in DOMAIN accounts
    /\ Cur.total = 0

\* C18: a record with client id c changes at most the account of c; the
\* balances, locked flag and store of every other account are unchanged.
Inv_C18_OtherAccountsUnchanged ==
    Acted =>
       \A c \in DOMAIN accounts \ {record.client_id} :
           c \in DOMAIN prev /\ accounts[c] = prev[c]

\* a record has just taken effect on one account while another account holds
\* funds and a transaction of the same id
Wit_C18 ==
    /\ Acted
    /\ ~Rejected
    /\ record.tx_type = "Dispute"
    /\ \E c \in DOMAIN accounts \ {record.client_id} :
          /\ record.tx_id \in DOMAIN accounts[c].txs
          /\ accounts[c].available >= accounts[c].txs[record.tx_id].amount[1]

\* C19: a Dispute, Resolve or Chargeback under client c whose tx id is stored
\* only in another client's account is rejected as an unknown transaction and
\* changes no account.
Inv_C19_LookupInOwnAccountOnly ==
    (/\ Acted
     /\ record.tx_type \in {"Dispute", "Resolve", "Chargeback"}
     /\ FreshId
     /\ StoredElsewhere)
    => /\ Rejected
       /\ Cur = Pre
       /\ \A c \in DOMAIN prev : accounts[c] = prev[c]

\* a Dispute has just named a tx id that only another client's account holds,
\* with funds enough there for a dispute
Wit_C19 ==
    /\ Acted
    /\ record.tx_type = "Dispute"
    /\ FreshId
    /\ \E c \in DOMAIN prev \ {record.client_id} :
          /\ record.tx_id \in DOMAIN prev[c].txs
          /\ prev[c].available >= prev[c].txs[record.tx_id].amount[1]

\* the last record is a Deposit or Withdrawal that passes all its guards
PassesGuards ==
    /\ record.tx_type \in {"Deposit", "Withdrawal"}
    /\ ~Pre.locked
    /\ FreshId
    /\ AmountPositive
    /\ (record.tx_type = "Withdrawal" => Pre.available >= record.amount[1])

\* C20: a store holds exactly the Deposit and Withdrawal records that passed
\* all their guards: such a record is added as Verified; a rejected Deposit or
\* Withdrawal, and every Dispute, Resolve or Chargeback, adds nothing (so a
\* rejected record does not reserve its tx id); no entry is ever deleted and no
\* entry has status Loaded.
Inv_C20_StoreHoldsAcceptedRecords ==
    /\ \A c \in DOMAIN accounts : \A t \in DOMAIN accounts[c].txs :
          /\ accounts[c].txs[t].tx_type \in {"Deposit", "Withdrawal"}
          /\ accounts[c].txs[t].status # "Loaded"
          /\ accounts[c].txs[t].tx_id = t
          /\ accounts[c].txs[t].client_id = c
          /\ accounts[c].txs[t].amount # None
          /\ accounts[c].txs[t].amount[1] > 0
    /\ Acted =>
          IF PassesGuards
          THEN /\ DOMAIN Cur.txs = DOMAIN Pre.txs \cup {record.tx_id}
               /\ StoredVerified
          ELSE DOMAIN Cur.txs = DOMAIN Pre.txs

\* the second record of the run has just been stored in an account that the
\* first record, a rejected one, had left with an empty store
Wit_C20 ==
    /\ Acted
    /\ nread = 2
    /\ PassesGuards
    /\ StoredVerified
    /\ ~FirstOfClient
    /\ DOMAIN Pre.txs = {}
\* the sum of the amounts of the transactions of store txs whose id is in S
RECURSIVE SumAmounts(_, _)
SumAmounts(txs, S) ==
    IF S = {} THEN 0
    ELSE LET t == CHOOSE x \in S : TRUE IN
         txs[t].amount[1] + SumAmounts(txs, S \ {t})

\* the ids of the stored transactions of an account that are under dispute
DisputedIds(acc) == {t \in DOMAIN acc.txs : acc.txs[t].status = "Disputed"}

\* C21: in every reachable state of every account, held equals the sum of the
\* amounts of the account's stored transactions whose status is Disputed.
CE_C21_HeldIsSumOfDisputed ==
    \A c \in DOMAIN accounts :
        accounts[c].held = SumAmounts(accounts[c].txs, DisputedIds(accounts[c]))
\* the ids of the stored transactions of an account of the given kind
IdsOfType(acc, ty) == {t \in DOMAIN acc.txs : acc.txs[t].tx_type = ty}

\* C22: in every reachable state of every account, total equals the sum of
\* the amounts of its stored deposits, minus the sum of the amounts of its
\* stored withdrawals, minus the sum of the amounts of its transactions on
\* which a Chargeback took effect.
Inv_C22_TotalIsLedgerSum ==
    \A c \in DOMAIN accounts :
        /\ chargebacks[c] \subseteq DOMAIN accounts[c].txs
        /\ accounts[c].total =
              SumAmounts(accounts[c].txs, IdsOfType(accounts[c], "Deposit"))
              - SumAmounts(accounts[c].txs, IdsOfType(accounts[c], "Withdrawal"))
              - SumAmounts(accounts[c].txs, chargebacks[c])

\* an account that stores both a deposit and a withdrawal and has funds left
Wit_C22 ==
    \E c \in DOMAIN accounts :
        /\ IdsOfType(accounts[c], "Deposit") # {}
        /\ IdsOfType(accounts[c], "Withdrawal") # {}
        /\ accounts[c].total > 0
====
